---- MODULE Spec2Model ----
\* Model of the two label-standardization verifiers:
\*   full:       src/label-verification-project/verify_label_standard.py
\*   simplified: src/verify_label_standard.py
\* Text is a sequence of tokens: a token is one character ("|", "#", "-", " ",
\* "\n") or a word that holds none of those characters.
EXTENDS Integers, Sequences, FiniteSets, TLC

VARIABLES
    variant,               \* which script runs: "full" or "simplified"
    pc,                    \* position in run_verification / main
    verification_results,  \* self.verification_results
    has_critical_error,    \* self.has_critical_error
    requests,              \* endpoints passed to github_api_request, in order
    response,              \* (success, body) of the latest github_api_request
    issue,                 \* run_verification's local `issue`
    pr,                    \* run_verification's local `pr`
    executed,              \* checks entered so far, in order
    exit_code,             \* status handed to sys.exit, -1 while running
    content,               \* document text handed to parse_label_table
    labels                 \* what parse_label_table returned, per variant

vars == <<variant, pc, verification_results, has_critical_error, requests,
          response, issue, pr, executed, exit_code, content, labels>>

None == [none |-> TRUE]

\* no call of parse_label_table is in progress or has just returned
NoLabels ==
    [simplified |-> [done |-> FALSE, rows |-> <<>>],
     full |-> [done |-> FALSE, rows |-> <<>>]]

\* a check without a document: its frame holds no text and no parsed table
NoDocument == content' = <<>> /\ labels' = NoLabels

-----------------------------------------------------------------------------
\* Bounds

MaxParts == 4
MaxRows == 16
MaxIssues == 2
MaxPulls == 2
MaxComments == 2

-----------------------------------------------------------------------------
\* Python string operations on token sequences

Whitespace == {" ", "\n"}

MinOf(S) == CHOOSE x \in S : \A y \in S : x <= y

MaxOf(S) == CHOOSE x \in S : \A y \in S : x >= y

\* str.strip()
Strip(s) ==
    LET keep == {i \in 1..Len(s) : s[i] \notin Whitespace}
    IN  IF keep = {} THEN <<>> ELSE SubSeq(s, MinOf(keep), MaxOf(keep))

\* str.strip(ch)
StripChar(s, ch) ==
    LET keep == {i \in 1..Len(s) : s[i] # ch}
    IN  IF keep = {} THEN <<>> ELSE SubSeq(s, MinOf(keep), MaxOf(keep))

\* str.split(sep) for a one-character sep
Split(s, sep) ==
    LET at == {i \in 1..Len(s) : s[i] = sep}
        n == Cardinality(at)
        pos(k) == IF k = 0 THEN 0
                  ELSE IF k = n + 1 THEN Len(s) + 1
                  ELSE CHOOSE i \in at : Cardinality({j \in at : j <= i}) = k
    IN  [k \in 1..(n + 1) |-> SubSeq(s, pos(k - 1) + 1, pos(k) - 1)]

\* sub in s
Contains(s, sub) ==
    \E i \in 0..(Len(s) - Len(sub)) : SubSeq(s, i + 1, i + Len(sub)) = sub

\* s.startswith(ch) for a one-character ch
StartsWith(s, ch) == Len(s) >= 1 /\ s[1] = ch

\* [cell.strip() for cell in line.strip('|').split('|')]
Cells(line) ==
    LET raw == Split(StripChar(line, "|"), "|")
    IN  [k \in 1..Len(raw) |-> Strip(raw[k])]

RECURSIVE Concat(_)
Concat(parts) ==
    IF parts = <<>> THEN <<>> ELSE Head(parts) \o Concat(Tail(parts))

-----------------------------------------------------------------------------
\* Configuration (load_configuration)

\* "| 标签名称 | 颜色值 | 描述 |": the three column titles are one token each
table_header ==
    <<"|", " ", "LabelName", " ", "|", " ", "ColorValue", " ", "|", " ",
      "Description", " ", "|">>

min_label_count_simplified == 12

min_label_count_full == 15

-----------------------------------------------------------------------------
\* parse_label_table, simplified variant

\* IsLabelRow without the '---' test
IsLabelRow_NoSeparatorTest(line) ==
    /\ StartsWith(line, "|")
    /\ Contains(line, <<"#">>)
    /\ LET cells == Cells(line)
       IN  /\ Len(cells) >= 2
           /\ cells[1] # <<>>
           /\ StartsWith(cells[2], "#")

\* the test of lines 141 and 143 on an already stripped line
IsLabelRow(line) ==
    /\ StartsWith(line, "|")
    /\ Contains(line, <<"#">>)
    /\ ~Contains(line, <<"-", "-", "-">>)
    /\ LET cells == Cells(line)
       IN  /\ Len(cells) >= 2
           /\ cells[1] # <<>>
           /\ StartsWith(cells[2], "#")

RECURSIVE ParseSimplifiedFrom(_, _, _)
ParseSimplifiedFrom(lines, i, acc) ==
    IF i > Len(lines) THEN acc
    ELSE LET line == Strip(lines[i])
         IN  IF IsLabelRow(line)
             THEN ParseSimplifiedFrom(lines, i + 1,
                      Append(acc, [name |-> Cells(line)[1], color |-> Cells(line)[2]]))
             ELSE ParseSimplifiedFrom(lines, i + 1, acc)

parse_label_table_simplified(text) ==
    ParseSimplifiedFrom(Split(text, "\n"), 1, <<>>)

-----------------------------------------------------------------------------
\* parse_label_table, full variant

\* dict(zip(headers, values)): a later duplicate key overwrites an earlier one
ZipDict(headers, values) ==
    LET n == IF Len(headers) < Len(values) THEN Len(headers) ELSE Len(values)
        keys == {headers[i] : i \in 1..n}
    IN  [k \in keys |-> values[MaxOf({i \in 1..n : headers[i] = k})]]

\* IsTableRow accepting two cells
IsTableRow_TwoCells(line) ==
    /\ StartsWith(line, "|")
    /\ ~Contains(line, <<"-", "-", "-">>)
    /\ Len(Cells(line)) >= 2

\* the test of lines 200 and 202 on a raw line
IsTableRow(line) ==
    /\ StartsWith(line, "|")
    /\ ~Contains(line, <<"-", "-", "-">>)
    /\ Len(Cells(line)) >= 3

RECURSIVE ParseFullFrom(_, _, _, _, _, _)
ParseFullFrom(lines, header, i, in_table, headers, acc) ==
    IF i > Len(lines) THEN acc
    ELSE LET line == lines[i]
         IN  IF Contains(line, header)
             THEN ParseFullFrom(lines, header, i + 1, TRUE, Cells(line), acc)
             ELSE LET acc2 == IF in_table /\ IsTableRow(line)
                              THEN Append(acc, ZipDict(headers, Cells(line)))
                              ELSE acc
                  IN  IF in_table /\ Strip(line) = <<>>
                      THEN acc2
                      ELSE ParseFullFrom(lines, header, i + 1, in_table, headers, acc2)

parse_label_table_full(text, header) ==
    ParseFullFrom(Split(text, "\n"), header, 1, FALSE, <<>>, <<>>)

-----------------------------------------------------------------------------
\* Document texts

NL == <<"\n">>

HeaderLine == table_header

SeparatorLine == <<"|", "-", "-", "-", "|", "-", "-", "-", "|", "-", "-", "-", "|">>

\* "| bug | #d73a4a | desc |"
RowLine ==
    <<"|", " ", "bug", " ", "|", " ", "#", "d73a4a", " ", "|", " ", "desc", " ", "|">>

\* "| bug | #d73a4a |"
ShortRowLine == <<"|", " ", "bug", " ", "|", " ", "#", "d73a4a", " ", "|">>

\* "| bug | #d73a4a | --- |"
DashedRowLine ==
    <<"|", " ", "bug", " ", "|", " ", "#", "d73a4a", " ", "|", " ", "-", "-", "-", " ", "|">>

Parts ==
    { <<" ">>, <<"|">>, <<"#">>, <<"a">>, NL,
      HeaderLine \o NL, SeparatorLine \o NL, RowLine \o NL, ShortRowLine \o NL,
      DashedRowLine \o NL }

Contents ==
    {Concat(p) : p \in UNION {[1..n -> Parts] : n \in 0..MaxParts}}

\* a document as the contents endpoint can hold it: an optional header and
\* separator, n rows, then an optional blank line followed by m more rows
RECURSIVE Rows(_)
Rows(n) == IF n = 0 THEN <<>> ELSE RowLine \o NL \o Rows(n - 1)

MakeDoc(with_header, n, m) ==
    (IF with_header THEN HeaderLine \o NL \o SeparatorLine \o NL ELSE <<>>)
    \o Rows(n)
    \o (IF m > 0 THEN NL \o Rows(m) ELSE <<>>)

DocTexts ==
    {MakeDoc(h, n, m) : h \in BOOLEAN, n \in 0..MaxRows, m \in 0..1}

\* the "content" field of a contents response: base64 of UTF-8 text, or
\* something b64decode(...).decode("utf-8") raises on
ContentFields ==
    {[valid |-> FALSE, text |-> <<>>]} \cup {[valid |-> TRUE, text |-> d] : d \in DocTexts}

-----------------------------------------------------------------------------
\* Issue, pull request, comment and label data the API can return.
\* Chinese words are one token each: biaoqian = 标签, biaozhunhua = 标准化,
\* xuqiu = 需求, tixi = 体系, yanseguifan = 颜色规范, shishi = 实施,
\* wancheng = 完成, yanzheng = 验证, yi = 已.

\* str.lower(), token by token
LowerToken(t) ==
    CASE t = "Label" -> "label"
      [] t = "Standardization" -> "standardization"
      [] t = "Implementation" -> "implementation"
      [] t = "Fix" -> "fix"
      [] t = "Update" -> "update"
      [] OTHER -> t

Lower(s) == [i \in 1..Len(s) |-> LowerToken(s[i])]

\* str(n) for 0 <= n <= 99
Digit(d) == CASE d = 0 -> "0" [] d = 1 -> "1" [] d = 2 -> "2" [] d = 3 -> "3"
              [] d = 4 -> "4" [] d = 5 -> "5" [] d = 6 -> "6" [] d = 7 -> "7"
              [] d = 8 -> "8" [] d = 9 -> "9"

Str(n) == IF n < 10 THEN <<Digit(n)>> ELSE <<Digit(n \div 10), Digit(n % 10)>>

expected_labels ==
    {"bug", "enhancement", "documentation", "feature", "question",
     "help-wanted", "good-first-issue", "priority-high", "priority-medium",
     "priority-low", "status-in-progress", "status-review", "status-done",
     "status-blocked", "wontfix"}

core_labels ==
    {"bug", "enhancement", "documentation", "priority-high", "priority-medium",
     "priority-low"}

issue_title_keywords ==
    {<<"biaoqian", "biaozhunhua">>, <<"Label", " ", "Standardization">>}

issue_body_keywords ==
    {<<"biaoqian", "tixi">>, <<"yanseguifan">>, <<"biaozhunhua", "xuqiu">>}

issue_required_labels == {"enhancement", "documentation"}

issue_required_sections ==
    {<<"##", " ", "wentimiaoshu">>, <<"##", " ", "yuqibiaozhun">>,
     <<"##", " ", "biaoqian", "qingdan">>}

pr_title_keywords ==
    {<<"shishi", "biaoqian", "biaozhunhua">>,
     <<"Label", " ", "Standardization", " ", "Implementation">>}

pr_required_sections ==
    {<<"##", " ", "xiugaizhaiyao">>, <<"##", " ", "biaoqian", "biangeng">>,
     <<"##", " ", "ceshijieguo">>}

pr_min_labels_count == 3

simplified_title_keywords == {<<"biaoqian">>, <<"label">>, <<"biaozhunhua">>}

simplified_body_keywords == {<<"biaoqian", "tixi">>, <<"yanseguifan">>}

completion_keywords ==
    {<<"wancheng">>, <<"wancheng", "yanzheng">>, <<"yi", "yanzheng">>,
     <<"biaozhunhua", "wancheng">>}

FullIssueBody ==
    <<"biaoqian", "tixi", "\n", "yanseguifan", "\n", "biaozhunhua", "xuqiu", "\n",
      "##", " ", "wentimiaoshu", "\n", "##", " ", "yuqibiaozhun", "\n",
      "##", " ", "biaoqian", "qingdan">>

\* an entry of the issues response; is_pr: it has a "pull_request" key;
\* has_body: "body" is a string and not null
IssueSamples ==
    { [number |-> 1, is_pr |-> FALSE, title |-> <<"Fix", " ", "bug">>,
       has_body |-> FALSE, body |-> <<>>, labels |-> {}],
      [number |-> 2, is_pr |-> FALSE, title |-> <<"biaoqian", "biaozhunhua", "xuqiu">>,
       has_body |-> TRUE, body |-> FullIssueBody, labels |-> expected_labels],
      [number |-> 3, is_pr |-> TRUE, title |-> <<"biaoqian", "biaozhunhua", "xuqiu">>,
       has_body |-> TRUE, body |-> FullIssueBody, labels |-> {}],
      [number |-> 4, is_pr |-> FALSE, title |-> <<"Fix", " ", "bug">>,
       has_body |-> TRUE, body |-> <<"biaoqian", "tixi">>, labels |-> {"bug"}],
      [number |-> 5, is_pr |-> FALSE, title |-> <<"Update", " ", "Label", "s">>,
       has_body |-> TRUE, body |-> <<"see", " ", "#", "1", "2">>, labels |-> {"enhancement"}],
      [number |-> 6, is_pr |-> FALSE, title |-> <<"Label", " ", "Standardization">>,
       has_body |-> FALSE, body |-> <<>>, labels |-> issue_required_labels] }

FullPrBody(n) ==
    <<"#">> \o Str(n) \o
    <<"\n", "##", " ", "xiugaizhaiyao", "\n", "##", " ", "biaoqian", "biangeng",
      "\n", "##", " ", "ceshijieguo">>

PrSamples ==
    { [number |-> 7, title |-> <<"shishi", "biaoqian", "biaozhunhua">>,
       has_body |-> TRUE, body |-> FullPrBody(2), labels |-> core_labels],
      [number |-> 8, title |-> <<"Fix", " ", "bug">>,
       has_body |-> TRUE, body |-> <<>>, labels |-> {}],
      [number |-> 9, title |-> <<"Label", " ", "Standardization", " ", "Implementation">>,
       has_body |-> TRUE, body |-> <<"#", "6", "0">>, labels |-> {"bug"}],
      [number |-> 10, title |-> <<"shishi", "biaoqian", "biaozhunhua">>,
       has_body |-> FALSE, body |-> <<>>, labels |-> {}] }

CommentSamples ==
    { <<"see", " ", "#", "7">>,
      <<"yi", "yanzheng">>,
      <<"pull/", "9", " ", "wancheng">>,
      <<"#", "7", "0", " ", "Fix">> }

\* names of the repository's labels, as token sequences like table cells
RepoLabelSamples ==
    { {}, {<<"bug">>}, {<<"bug">>, <<"wontfix">>}, {<<"wontfix">>} }

SeqsUpTo(S, n) == UNION {[1..k -> S] : k \in 0..n}

-----------------------------------------------------------------------------
\* The result log

Log == [results |-> verification_results, critical |-> has_critical_error]

\* record_result without the latch of has_critical_error
record_result_NoLatch(st, task, message, status) ==
    [results  |-> Append(st.results, [task |-> task, message |-> message, status |-> status]),
     critical |-> st.critical]

\* record_result inserting at the front of the log
record_result_Prepend(st, task, message, status) ==
    [results  |-> <<[task |-> task, message |-> message, status |-> status]>> \o st.results,
     critical |-> IF status = "critical" THEN TRUE ELSE st.critical]

\* record_result: append, and latch has_critical_error on "critical"
record_result(st, task, message, status) ==
    [results  |-> Append(st.results, [task |-> task, message |-> message, status |-> status]),
     critical |-> IF status = "critical" THEN TRUE ELSE st.critical]

\* record_result only when cond holds
record_if(cond, st, task, message, status) ==
    IF cond THEN record_result(st, task, message, status) ELSE st

\* github_api_request: what a request can answer. A failed request answers
\* (False, None); its body is never read and is written as the value `empty`
\* of the endpoint's own kind.
Failed(endpoint, empty) == [endpoint |-> endpoint, success |-> FALSE, body |-> empty]

Answers(endpoint, bodies, empty) ==
    {Failed(endpoint, empty)} \cup
    {[endpoint |-> endpoint, success |-> TRUE, body |-> b] : b \in bodies}

\* one step of run_verification: the check `name` ran, left the log as st,
\* issued the requests rs (the last answered by resp) and left control at next
Step(name, st, rs, next, code) ==
    /\ executed' = Append(executed, name)
    /\ verification_results' = st.results
    /\ has_critical_error' = st.critical
    /\ requests' = requests \o [i \in 1..Len(rs) |-> rs[i].endpoint]
    /\ response' = IF rs = <<>> THEN response ELSE rs[Len(rs)]
    /\ pc' = next
    /\ exit_code' = code
    /\ UNCHANGED variant

\* ReturnFalse with the return left out: control falls through to the report
ReturnFalse_FallsThrough(name, st, rs) == Step(name, st, rs, "generate_report", exit_code)

\* run_verification returns False and main calls sys.exit(1)
ReturnFalse(name, st, rs) == Step(name, st, rs, "done", 1)

\* an exception no handler catches: the interpreter exits with status 1
Raise(name, st, rs) == Step(name, st, rs, "raised", 1)

-----------------------------------------------------------------------------
\* setup_environment

setup_environment_full ==
    /\ variant = "full"
    /\ pc = "setup_environment"
    /\ UNCHANGED <<issue, pr>>
    /\ NoDocument
    /\ \E github_token \in BOOLEAN, org \in BOOLEAN :
         IF ~github_token
         THEN ReturnFalse("setup_environment",
                  record_result(Log, "env", "no GITHUB_TOKEN", "critical"), <<>>)
         ELSE IF ~org
         THEN ReturnFalse("setup_environment",
                  record_result(Log, "env", "no GITHUB_ORG", "critical"), <<>>)
         ELSE \E r \in Answers("", {None}, None) :
                IF ~r.success
                THEN ReturnFalse("setup_environment",
                         record_result(Log, "env", "API unreachable", "critical"), <<r>>)
                ELSE Step("setup_environment",
                         record_result(Log, "env", "environment ok", "success"), <<r>>,
                         "verify_branch_existence", exit_code)

\* setup_environment_simplified with the result of the API test ignored
setup_environment_simplified_NoApiTest ==
    /\ variant = "simplified"
    /\ pc = "setup_environment"
    /\ UNCHANGED <<issue, pr>>
    /\ NoDocument
    /\ \E github_token \in BOOLEAN, org \in BOOLEAN :
         IF ~github_token \/ ~org
         THEN ReturnFalse("setup_environment", Log, <<>>)
         ELSE \E r \in Answers("", {None}, None) :
                Step("setup_environment",
                     record_result(Log, "env", "environment ok", "success"), <<r>>,
                     "verify_branch_existence", exit_code)

setup_environment_simplified ==
    /\ variant = "simplified"
    /\ pc = "setup_environment"
    /\ UNCHANGED <<issue, pr>>
    /\ NoDocument
    /\ \E github_token \in BOOLEAN, org \in BOOLEAN :
         IF ~github_token \/ ~org
         THEN ReturnFalse("setup_environment", Log, <<>>)
         ELSE \E r \in Answers("", {None}, None) :
                IF ~r.success
                THEN ReturnFalse("setup_environment", Log, <<r>>)
                ELSE Step("setup_environment",
                         record_result(Log, "env", "environment ok", "success"), <<r>>,
                         "verify_branch_existence", exit_code)

-----------------------------------------------------------------------------
\* verify_branch_existence (the same code in both variants)

verify_branch_existence ==
    /\ pc = "verify_branch_existence"
    /\ UNCHANGED <<issue, pr>>
    /\ NoDocument
    /\ \E r \in Answers("branches", {None}, None) :
         IF r.success
         THEN Step("verify_branch_existence",
                  record_result(Log, "branch", "branch exists", "success"), <<r>>,
                  "verify_label_document", exit_code)
         ELSE ReturnFalse("verify_branch_existence",
                  record_result(Log, "branch", "branch missing", "critical"), <<r>>)

-----------------------------------------------------------------------------
\* verify_label_document

\* parse_label_table of variant v was handed text and returned rows
Parsed(v, text, rows) ==
    /\ content' = text
    /\ labels' = [NoLabels EXCEPT ![v] = [done |-> TRUE, rows |-> rows]]

\* parse_label_table on each document text the API can hold, evaluated once
LabelTableOf ==
    [d \in DocTexts |->
        [simplified |-> parse_label_table_simplified(d),
         full |-> parse_label_table_full(d, table_header)]]

\* TooFewLabels with the minimum itself rejected
TooFewLabels_Exclusive(rows, min_count) == Len(rows) <= min_count

\* len(labels) < min_label_count
TooFewLabels(rows, min_count) == Len(rows) < min_count

verify_label_document_simplified ==
    /\ variant = "simplified"
    /\ pc = "verify_label_document"
    /\ UNCHANGED <<issue, pr>>
    /\ \E r \in Answers("contents", ContentFields, [valid |-> FALSE, text |-> <<>>]) :
         IF ~r.success
         THEN /\ ReturnFalse("verify_label_document",
                     record_result(Log, "doc", "document missing", "critical"), <<r>>)
              /\ NoDocument
         ELSE IF ~r.body.valid
         THEN /\ ReturnFalse("verify_label_document",
                     record_result(Log, "doc", "decode failed", "critical"), <<r>>)
              /\ NoDocument
         ELSE LET rows == LabelTableOf[r.body.text].simplified
              IN  /\ Parsed("simplified", r.body.text, rows)
                  /\ IF TooFewLabels(rows, min_label_count_simplified)
                     THEN Step("verify_label_document",
                              record_result(Log, "doc", "too few labels", "warning"), <<r>>,
                              "verify_standardization_issue", exit_code)
                     ELSE Step("verify_label_document",
                              record_result(Log, "doc", "document complete", "success"), <<r>>,
                              "verify_standardization_issue", exit_code)

verify_label_document_full ==
    /\ variant = "full"
    /\ pc = "verify_label_document"
    /\ UNCHANGED <<issue, pr>>
    /\ \E r \in Answers("contents", ContentFields, [valid |-> FALSE, text |-> <<>>]) :
         IF ~r.success
         THEN /\ ReturnFalse("verify_label_document",
                     record_result(Log, "doc", "document missing", "critical"), <<r>>)
              /\ NoDocument
         ELSE IF ~r.body.valid
         THEN /\ Raise("verify_label_document", Log, <<r>>)
              /\ NoDocument
         ELSE IF ~Contains(r.body.text, table_header)
         THEN /\ ReturnFalse("verify_label_document",
                     record_result(Log, "doc", "no table header", "critical"), <<r>>)
              /\ NoDocument
         ELSE LET rows == LabelTableOf[r.body.text].full
              IN  /\ Parsed("full", r.body.text, rows)
                  /\ IF TooFewLabels(rows, min_label_count_full)
                     THEN ReturnFalse("verify_label_document",
                              record_result(Log, "doc", "too few labels", "critical"), <<r>>)
                     ELSE Step("verify_label_document",
                              record_result(Log, "doc", "document complete", "success"), <<r>>,
                              "verify_standardization_issue", exit_code)

-----------------------------------------------------------------------------
\* verify_standardization_issue

\* any(keyword in text for keyword in keywords)
AnyIn(keywords, text) == \E k \in keywords : Contains(text, k)

\* the for loop with break: index of the first entry that matches, 0 if none
FirstIndex(list, Matches(_)) ==
    LET hits == {i \in 1..Len(list) : Matches(list[i])}
    IN  IF hits = {} THEN 0 ELSE MinOf(hits)

\* lines 157-164 of the simplified variant
MatchesSimplified(entry) ==
    /\ ~entry.is_pr
    /\ \/ AnyIn(simplified_title_keywords, Lower(entry.title))
       \/ AnyIn(simplified_body_keywords,
                IF entry.has_body THEN Lower(entry.body) ELSE <<>>)

\* MatchesFull without the pull-request skip
MatchesFull_NoPrSkip(entry) == AnyIn(issue_title_keywords, entry.title)

\* lines 223-227 of the full variant
MatchesFull(entry) ==
    /\ ~entry.is_pr
    /\ AnyIn(issue_title_keywords, entry.title)

verify_standardization_issue_simplified ==
    /\ variant = "simplified"
    /\ pc = "verify_standardization_issue"
    /\ UNCHANGED pr
    /\ NoDocument
    /\ \E r \in Answers("issues", SeqsUpTo(IssueSamples, MaxIssues), <<>>) :
         IF ~r.success
         THEN /\ issue' = None
              /\ Step("verify_standardization_issue",
                     record_result(Log, "issue", "no issue list", "critical"), <<r>>,
                     "generate_report", exit_code)
         ELSE LET i == FirstIndex(r.body, MatchesSimplified)
              IN  IF i = 0
                  THEN /\ issue' = None
                       /\ Step("verify_standardization_issue",
                              record_result(Log, "issue", "issue not found", "warning"), <<r>>,
                              "generate_report", exit_code)
                  ELSE /\ issue' = r.body[i]
                       /\ Step("verify_standardization_issue",
                              record_result(Log, "issue", "issue verified", "success"), <<r>>,
                              "generate_report", exit_code)

verify_standardization_issue_full ==
    /\ variant = "full"
    /\ pc = "verify_standardization_issue"
    /\ UNCHANGED pr
    /\ NoDocument
    /\ \E r \in Answers("issues", SeqsUpTo(IssueSamples, MaxIssues), <<>>) :
         IF ~r.success
         THEN /\ issue' = None
              /\ ReturnFalse("verify_standardization_issue",
                     record_result(Log, "issue", "no issue list", "critical"), <<r>>)
         ELSE LET i == FirstIndex(r.body, MatchesFull)
              IN  IF i = 0
                  THEN /\ issue' = None
                       /\ ReturnFalse("verify_standardization_issue",
                              record_result(Log, "issue", "issue not found", "critical"), <<r>>)
                  ELSE LET target == r.body[i]
                       IN  IF ~target.has_body
                           \* `keyword not in issue_body` with issue_body None
                           THEN /\ issue' = None
                                /\ Raise("verify_standardization_issue", Log, <<r>>)
                           ELSE LET s1 == record_if(
                                        \E k \in issue_body_keywords : ~Contains(target.body, k),
                                        Log, "issue", "missing keywords", "warning")
                                    s2 == record_if(
                                        \E k \in issue_required_sections : ~Contains(target.body, k),
                                        s1, "issue", "missing sections", "warning")
                                    s3 == record_if(
                                        \E l \in issue_required_labels : l \notin target.labels,
                                        s2, "issue", "missing labels", "warning")
                                IN  /\ issue' = target
                                    /\ Step("verify_standardization_issue",
                                           record_result(s3, "issue", "issue verified", "success"),
                                           <<r>>, "verify_standardization_pr", exit_code)

-----------------------------------------------------------------------------
\* The checks only the full variant has

MatchesPr(entry) == AnyIn(pr_title_keywords, entry.title)

verify_standardization_pr ==
    /\ variant = "full"
    /\ pc = "verify_standardization_pr"
    /\ UNCHANGED issue
    /\ NoDocument
    /\ \E r \in Answers("pulls", SeqsUpTo(PrSamples, MaxPulls), <<>>) :
         IF ~r.success
         THEN /\ pr' = None
              /\ ReturnFalse("verify_standardization_pr",
                     record_result(Log, "pr", "no pr list", "critical"), <<r>>)
         ELSE LET i == FirstIndex(r.body, MatchesPr)
              IN  IF i = 0
                  THEN /\ pr' = None
                       /\ ReturnFalse("verify_standardization_pr",
                              record_result(Log, "pr", "pr not found", "critical"), <<r>>)
                  ELSE LET target == r.body[i]
                       IN  IF ~target.has_body
                           \* `f"#{...}" not in pr_body` with pr_body None
                           THEN /\ pr' = None
                                /\ Raise("verify_standardization_pr", Log, <<r>>)
                           ELSE LET s1 == record_if(
                                        ~Contains(target.body, <<"#">> \o Str(issue.number)),
                                        Log, "pr", "pr not linked", "warning")
                                    s2 == record_if(
                                        \E k \in pr_required_sections : ~Contains(target.body, k),
                                        s1, "pr", "missing sections", "warning")
                                    s3 == record_if(
                                        Cardinality(target.labels) < pr_min_labels_count,
                                        s2, "pr", "too few labels", "warning")
                                IN  /\ pr' = target
                                    /\ Step("verify_standardization_pr",
                                           record_result(s3, "pr", "pr verified", "success"),
                                           <<r>>, "verify_issue_label_completeness", exit_code)

verify_issue_label_completeness ==
    /\ variant = "full"
    /\ pc = "verify_issue_label_completeness"
    /\ UNCHANGED <<issue, pr>>
    /\ NoDocument
    /\ IF expected_labels \ issue.labels # {}
       THEN Step("verify_issue_label_completeness",
                record_result(Log, "issue_labels", "missing expected labels", "warning"),
                <<>>, "verify_issue_comments", exit_code)
       ELSE Step("verify_issue_label_completeness",
                record_result(Log, "issue_labels", "all expected labels", "success"),
                <<>>, "verify_issue_comments", exit_code)

\* PrReferenceFound without the "pull/<n>" form
PrReferenceFound_HashOnly(comments, pr_number) ==
    \E i \in 1..Len(comments) : Contains(comments[i], <<"#">> \o Str(pr_number))

\* lines 363-364: some comment holds "#<n>" or "pull/<n>"
PrReferenceFound(comments, pr_number) ==
    \E i \in 1..Len(comments) :
        \/ Contains(comments[i], <<"#">> \o Str(pr_number))
        \/ Contains(comments[i], <<"pull/">> \o Str(pr_number))

\* lines 366-367: some comment, lower-cased, holds a completion keyword
CompletionKeywordFound(comments) ==
    \E i \in 1..Len(comments) : AnyIn(completion_keywords, Lower(comments[i]))

verify_issue_comments ==
    /\ variant = "full"
    /\ pc = "verify_issue_comments"
    /\ UNCHANGED <<issue, pr>>
    /\ NoDocument
    /\ \E r \in Answers("comments", SeqsUpTo(CommentSamples, MaxComments), <<>>) :
         IF ~r.success
         THEN Step("verify_issue_comments",
                  record_result(Log, "comments", "no comments", "warning"), <<r>>,
                  "verify_document_label_consistency", exit_code)
         ELSE LET pr_reference_found == PrReferenceFound(r.body, pr.number)
                  completion_keyword_found == CompletionKeywordFound(r.body)
                  s1 == record_if(~pr_reference_found, Log,
                                  "comments", "no pr reference", "warning")
                  s2 == record_if(~completion_keyword_found, s1,
                                  "comments", "no completion keyword", "warning")
                  s3 == record_if(pr_reference_found /\ completion_keyword_found, s2,
                                  "comments", "comments verified", "success")
              IN  Step("verify_issue_comments", s3, <<r>>,
                       "verify_document_label_consistency", exit_code)

\* {label["标签名称"] for label in documented_labels if "标签名称" in label}
DocLabelNames(rows) ==
    {rows[i][<<"LabelName">>] :
        i \in {j \in 1..Len(rows) : <<"LabelName">> \in DOMAIN rows[j]}}

verify_document_label_consistency ==
    /\ variant = "full"
    /\ pc = "verify_document_label_consistency"
    /\ UNCHANGED <<issue, pr>>
    /\ \E r \in Answers("contents", ContentFields, [valid |-> FALSE, text |-> <<>>]) :
         IF ~r.success
         THEN /\ Step("verify_document_label_consistency",
                     record_result(Log, "consistency", "no document", "critical"), <<r>>,
                     "verify_pr_core_labels", exit_code)
              /\ NoDocument
         ELSE IF ~r.body.valid
         THEN /\ Raise("verify_document_label_consistency", Log, <<r>>)
              /\ NoDocument
         ELSE LET rows == LabelTableOf[r.body.text].full
                  doc_label_names == DocLabelNames(rows)
              IN  /\ Parsed("full", r.body.text, rows)
                  /\ \E q \in Answers("labels", RepoLabelSamples, {}) :
                       IF ~q.success
                       THEN Step("verify_document_label_consistency",
                                record_result(Log, "consistency", "no repo labels", "critical"),
                                <<r, q>>, "verify_pr_core_labels", exit_code)
                       ELSE LET missing_in_doc == q.body \ doc_label_names
                                extra_in_doc == doc_label_names \ q.body
                                s1 == record_if(missing_in_doc # {}, Log,
                                          "consistency", "document lacks labels", "warning")
                                s2 == record_if(extra_in_doc # {}, s1,
                                          "consistency", "document has extra labels", "warning")
                                s3 == record_if(missing_in_doc = {} /\ extra_in_doc = {}, s2,
                                          "consistency", "consistent", "success")
                            IN  Step("verify_document_label_consistency", s3, <<r, q>>,
                                     "verify_pr_core_labels", exit_code)

verify_pr_core_labels ==
    /\ variant = "full"
    /\ pc = "verify_pr_core_labels"
    /\ UNCHANGED <<issue, pr>>
    /\ NoDocument
    /\ IF core_labels \ pr.labels # {}
       THEN Step("verify_pr_core_labels",
                record_result(Log, "core_labels", "missing core labels", "warning"),
                <<>>, "generate_report", exit_code)
       ELSE Step("verify_pr_core_labels",
                record_result(Log, "core_labels", "all core labels", "success"),
                <<>>, "generate_report", exit_code)

-----------------------------------------------------------------------------
\* generate_report, then main's sys.exit(0 if success else 1)

CountStatus(results, status) ==
    Cardinality({i \in 1..Len(results) : results[i].status = status})

\* the closing line generate_report prints: lines 468-476 of the full variant
\* (error_count counts the critical results), lines 195-200 of the simplified
ReportOutcome(variant_, critical, results) ==
    IF critical THEN "failed"
    ELSE IF variant_ = "full" /\ CountStatus(results, "critical") > 0
    THEN "completed with warnings"
    ELSE "all passed"

\* the value generate_report returns: False on the first branch only
ReportSuccess(variant_, critical, results) ==
    ReportOutcome(variant_, critical, results) # "failed"

generate_report ==
    /\ pc = "generate_report"
    /\ UNCHANGED <<issue, pr>>
    /\ NoDocument
    /\ Step("generate_report", Log, <<>>, "done",
            IF ReportSuccess(variant, has_critical_error, verification_results)
            THEN 0 ELSE 1)

-----------------------------------------------------------------------------
\* The run: main() on either script

Init ==
    /\ variant \in {"full", "simplified"}
    /\ pc = "setup_environment"
    /\ verification_results = <<>>
    /\ has_critical_error = FALSE
    /\ requests = <<>>
    /\ response = Failed("", None)
    /\ issue = None
    /\ pr = None
    /\ executed = <<>>
    /\ exit_code = -1
    /\ content = <<>>
    /\ labels = NoLabels

Next ==
    \/ setup_environment_full
    \/ setup_environment_simplified
    \/ verify_branch_existence
    \/ verify_label_document_simplified
    \/ verify_label_document_full
    \/ verify_standardization_issue_simplified
    \/ verify_standardization_issue_full
    \/ verify_standardization_pr
    \/ verify_issue_label_completeness
    \/ verify_issue_comments
    \/ verify_document_label_consistency
    \/ verify_pr_core_labels
    \/ generate_report

Spec == Init /\ [][Next]_vars

-----------------------------------------------------------------------------
\* parse_label_table on its own, on every text of Contents

InitParse ==
    /\ variant \in {"full", "simplified"}
    /\ pc = "parse_label_table"
    /\ content \in Contents
    /\ labels = NoLabels
    /\ verification_results = <<>>
    /\ has_critical_error = FALSE
    /\ requests = <<>>
    /\ response = Failed("", None)
    /\ issue = None
    /\ pr = None
    /\ executed = <<>>
    /\ exit_code = -1

call_parse_label_table_simplified ==
    /\ variant = "simplified"
    /\ pc = "parse_label_table"
    /\ labels' = [labels EXCEPT !.simplified =
                     [done |-> TRUE, rows |-> parse_label_table_simplified(content)]]
    /\ pc' = "done"
    /\ UNCHANGED <<variant, verification_results, has_critical_error, requests,
                   response, issue, pr, executed, exit_code, content>>

call_parse_label_table_full ==
    /\ variant = "full"
    /\ pc = "parse_label_table"
    /\ labels' = [labels EXCEPT !.full =
                     [done |-> TRUE, rows |-> parse_label_table_full(content, table_header)]]
    /\ pc' = "done"
    /\ UNCHANGED <<variant, verification_results, has_critical_error, requests,
                   response, issue, pr, executed, exit_code, content>>

NextParse ==
    \/ call_parse_label_table_simplified
    \/ call_parse_label_table_full

SpecParse == InitParse /\ [][NextParse]_vars

-----------------------------------------------------------------------------
\* Vocabulary of the properties

Last(seq) == seq[Len(seq)]

HasCritical(results) == \E i \in 1..Len(results) : results[i].status = "critical"

Checks ==
    {"setup_environment", "verify_branch_existence", "verify_label_document",
     "verify_standardization_issue", "verify_standardization_pr",
     "verify_issue_label_completeness", "verify_issue_comments",
     "verify_document_label_consistency", "verify_pr_core_labels"}

Ended == pc \in {"done", "raised"}

\* the check `name` is the one that ran last
JustRan(name) == executed # <<>> /\ Last(executed) = name

-----------------------------------------------------------------------------
\* C1: when the process has exited, its exit code is 1 if the result log holds
\* a critical result and 0 if it holds none, in either variant.
C1_ExitCodeFollowsLog ==
    Ended => exit_code = (IF HasCritical(verification_results) THEN 1 ELSE 0)

-----------------------------------------------------------------------------
\* C2: in the full variant, once the log holds a critical result no later
\* check runs: no step after that enters a check, issues a request or
\* appends a result.
C2_CriticalShortCircuits ==
    [][(variant = "full" /\ HasCritical(verification_results))
         => /\ (executed' = executed \/ Last(executed') \notin Checks)
            /\ requests' = requests
            /\ verification_results' = verification_results]_vars

-----------------------------------------------------------------------------
\* C3 as stated: in the simplified variant a run that recorded a critical
\* result still runs every remaining check up to the issue check and calls
\* generate_report.
C3_SimplifiedNeverHalts ==
    (variant = "simplified" /\ Ended /\ HasCritical(verification_results))
        => /\ \E i \in 1..Len(executed) : executed[i] = "verify_standardization_issue"
           /\ Last(executed) = "generate_report"

\* C3 as amended: in the simplified variant a critical result of the branch
\* check or the label-document check ends the run at once (it is the last
\* result, no later check and no report run, exit code 1); only a critical
\* result of the issue check is merely recorded, and generate_report is still
\* called after it.
C3_SimplifiedHaltsBeforeIssueCheck ==
    variant = "simplified"
        => \A i \in 1..Len(verification_results) :
             verification_results[i].status = "critical"
                 => \/ /\ verification_results[i].task \in {"branch", "doc"}
                       /\ i = Len(verification_results)
                       /\ pc = "done"
                       /\ exit_code = 1
                       /\ Last(executed) \in {"verify_branch_existence", "verify_label_document"}
                    \/ /\ verification_results[i].task = "issue"
                       /\ \/ pc = "generate_report"
                          \/ pc = "done" /\ Last(executed) = "generate_report"

C3_Witness ==
    /\ variant = "simplified"
    /\ pc = "done"
    /\ Last(executed) = "generate_report"
    /\ HasCritical(verification_results)

-----------------------------------------------------------------------------
\* The label-document check ran and one of its pass conditions failed: the
\* request failed, the content did not decode, or too few rows were parsed.
DocRowCount(v, text) == Len(LabelTableOf[text][v])

MinLabelCount(v) ==
    IF v = "full" THEN min_label_count_full ELSE min_label_count_simplified

DocCheckFailed ==
    /\ JustRan("verify_label_document")
    /\ \/ ~response.success
       \/ ~response.body.valid
       \/ DocRowCount(variant, response.body.text) < MinLabelCount(variant)

\* C4, the full variant's half: when the label-document check fails for any of
\* its pass conditions, the full variant has recorded a critical result as its
\* last result and runs no later check. (The other half, that the simplified
\* variant records a warning and goes on, fails as well: it records a critical
\* result and returns when the request fails or the content does not decode.)
C4_FullDocFailureIsCritical ==
    (variant = "full" /\ DocCheckFailed)
        => /\ Last(verification_results).task = "doc"
           /\ Last(verification_results).status = "critical"
           /\ pc = "done"

-----------------------------------------------------------------------------
\* C5: every check that runs and returns has appended at least one result.
C5_EveryCheckRecords ==
    [][(executed' # executed /\ Last(executed') \in Checks /\ pc' # "raised")
         => Len(verification_results') > Len(verification_results)]_vars

-----------------------------------------------------------------------------
\* C6: with token and org present and the repository root request answered
\* non-200, the run ends at once with failure: that request is the only one,
\* setup_environment is the only check that ran, the full variant's log is one
\* critical result and the simplified variant's log is empty. No run issues a
\* second request unless the root request succeeded.
C6_RootFailureEndsRun ==
    /\ (Len(requests) = 1 /\ ~response.success)
         => /\ requests = <<"">>
            /\ executed = <<"setup_environment">>
            /\ pc = "done"
            /\ exit_code = 1
            /\ IF variant = "full"
               THEN /\ Len(verification_results) = 1
                    /\ verification_results[1].status = "critical"
               ELSE verification_results = <<>>
    /\ Len(requests) >= 2
         => /\ requests[1] = ""
            /\ verification_results[1].task = "env"
            /\ verification_results[1].status = "success"

C6_Witness ==
    /\ variant = "full"
    /\ requests = <<"">>
    /\ ~response.success
    /\ pc = "done"

-----------------------------------------------------------------------------
\* C7: for a document that was retrieved and decoded, the label-document
\* check records success exactly when the number of parsed rows is at least
\* the variant's minimum (12 simplified, 15 full).
C7_InclusiveMinimum ==
    (JustRan("verify_label_document") /\ response.success /\ response.body.valid)
        => /\ Last(verification_results).task = "doc"
           /\ (Last(verification_results).status = "success"
                 <=> DocRowCount(variant, response.body.text) >= MinLabelCount(variant))

\* a document with exactly 12 rows passes the simplified check
C7_Witness ==
    /\ variant = "simplified"
    /\ JustRan("verify_label_document")
    /\ response.success
    /\ response.body.valid
    /\ DocRowCount("simplified", response.body.text) = min_label_count_simplified
    /\ Last(verification_results).status = "success"

-----------------------------------------------------------------------------
\* The issue check ran on an issue list the API returned
IssueListSearched == JustRan("verify_standardization_issue") /\ response.success

IssueNotFoundReported ==
    /\ issue = None
    /\ Last(verification_results).task = "issue"
    /\ Last(verification_results).message = "issue not found"

\* entry's title or body contains a keyword configured for variant v
\* (the simplified variant compares lower-cased text)
C10_TitleHasKeyword(v, entry) ==
    IF v = "full"
    THEN \E k \in issue_title_keywords : Contains(entry.title, k)
    ELSE \E k \in simplified_title_keywords : Contains(Lower(entry.title), k)

C10_BodyHasKeyword(v, entry) ==
    /\ entry.has_body
    /\ IF v = "full"
       THEN \E k \in issue_body_keywords : Contains(entry.body, k)
       ELSE \E k \in simplified_body_keywords : Contains(Lower(entry.body), k)

\* C10 as stated: in both variants the issue check selects the first entry
\* that is not a pull request and whose title or body contains a configured
\* keyword, and reports "not found" only if there is no such entry.
C10_SelectsByTitleOrBody ==
    (IssueListSearched /\ pc # "raised")
        => LET hits == {i \in 1..Len(response.body) :
                          /\ ~response.body[i].is_pr
                          /\ \/ C10_TitleHasKeyword(variant, response.body[i])
                             \/ C10_BodyHasKeyword(variant, response.body[i])}
           IN  IF hits = {} THEN IssueNotFoundReported
               ELSE issue = response.body[MinOf(hits)]

\* C10 as amended: the simplified variant selects the first entry that is not
\* a pull request and whose lower-cased title or body contains one of its
\* keywords; the full variant selects the first entry that is not a pull
\* request and whose title contains a configured title keyword, the body not
\* being consulted, and returns it unless its body is null, on which the check
\* raises. Pull requests are never selected, and "not found" is reported
\* exactly when no entry matches in this sense.
C10_SelectsFirstMatch ==
    IssueListSearched
        => LET hits == {i \in 1..Len(response.body) :
                          /\ ~response.body[i].is_pr
                          /\ \/ C10_TitleHasKeyword(variant, response.body[i])
                             \/ /\ variant = "simplified"
                                /\ C10_BodyHasKeyword(variant, response.body[i])}
           IN  IF hits = {}
               THEN IssueNotFoundReported /\ pc # "raised"
               ELSE IF variant = "full" /\ ~response.body[MinOf(hits)].has_body
               THEN pc = "raised" /\ issue = None
               ELSE /\ issue = response.body[MinOf(hits)]
                    /\ ~issue.is_pr
                    /\ Last(verification_results).status = "success"
                    /\ pc # "raised"

\* for [{title: "Fix bug"}, {title: "标签标准化需求"}] the second is selected
C10_Witness ==
    /\ IssueListSearched
    /\ Len(response.body) = 2
    /\ response.body[1].title = <<"Fix", " ", "bug">>
    /\ ~C10_BodyHasKeyword(variant, response.body[1])
    /\ response.body[2].title = <<"biaoqian", "biaozhunhua", "xuqiu">>
    /\ issue = response.body[2]

-----------------------------------------------------------------------------
\* parse_label_table returned
ParserReturned(v) == pc = "done" /\ variant = v /\ labels[v].done

\* the k-th smallest member of a set of line numbers
Nth(S, k) == CHOOSE i \in S : Cardinality({j \in S : j <= i}) = k

\* the cells of a table line: the pieces between its pipes, the pipes that
\* open and close the line set aside, each piece trimmed
C8_CellsBetweenPipes(line) ==
    LET pieces == Split(line, "|")
        inner == {i \in 1..Len(pieces) : pieces[i] # <<>>}
    IN  IF inner = {} THEN <<>>
        ELSE [k \in 1..(MaxOf(inner) - MinOf(inner) + 1) |->
                 Strip(pieces[MinOf(inner) + k - 1])]

C8_Qualifies(raw) ==
    LET line == Strip(raw)
        cells == C8_CellsBetweenPipes(line)
    IN  /\ Len(line) > 0 /\ line[1] = "|"
        /\ \E i \in 1..Len(line) : line[i] = "#"
        /\ ~\E i \in 1..(Len(line) - 2) :
               line[i] = "-" /\ line[i + 1] = "-" /\ line[i + 2] = "-"
        /\ Len(cells) >= 2
        /\ cells[1] # <<>>
        /\ cells[2] # <<>>
        /\ cells[2][1] = "#"

\* C8: the simplified parser returns, in line order, {name: cell[0], color:
\* cell[1]} for exactly the lines that, trimmed, start with "|", contain "#",
\* do not contain "---" and have non-empty first and second cells, the second
\* beginning with "#"; every other line contributes nothing.
C8_SimplifiedParserRows ==
    ParserReturned("simplified")
        => LET lines == Split(content, "\n")
               rows == {i \in 1..Len(lines) : C8_Qualifies(lines[i])}
           IN  labels.simplified.rows =
                   [k \in 1..Cardinality(rows) |->
                       [name  |-> C8_CellsBetweenPipes(Strip(lines[Nth(rows, k)]))[1],
                        color |-> C8_CellsBetweenPipes(Strip(lines[Nth(rows, k)]))[2]]]

\* "| bug | #d73a4a | desc |" yields {name: "bug", color: "#d73a4a"}, between
\* a separator row and a row holding "---", which yield nothing
C8_Witness ==
    /\ ParserReturned("simplified")
    /\ content = SeparatorLine \o NL \o RowLine \o NL \o DashedRowLine \o NL
    /\ labels.simplified.rows = <<[name |-> <<"bug">>, color |-> <<"#", "d73a4a">>]>>

-----------------------------------------------------------------------------
\* the lines of the table of the full parser: after the first line that
\* contains the header, up to the first blank line after it
C9_HeaderLines(lines) == {i \in 1..Len(lines) : Contains(lines[i], table_header)}

C9_Window(lines) ==
    LET hs == C9_HeaderLines(lines)
        blanks == {i \in 1..Len(lines) : i > MinOf(hs) /\ Strip(lines[i]) = <<>>}
        stop == IF blanks = {} THEN Len(lines) + 1 ELSE MinOf(blanks)
    IN  IF hs = {} THEN {} ELSE (MinOf(hs) + 1)..(stop - 1)

C9_PipeCount(line) == Cardinality({i \in 1..Len(line) : line[i] = "|"})

\* starts with "|", holds no "---", splits into at least 3 cells
C9_RowShaped(line) ==
    /\ Len(line) > 0 /\ line[1] = "|"
    /\ ~\E i \in 1..(Len(line) - 2) :
           line[i] = "-" /\ line[i + 1] = "-" /\ line[i + 2] = "-"
    /\ C9_PipeCount(StripChar(line, "|")) >= 2

\* the row returned for line i: its cells keyed by the cells of the nearest
\* header line at or above it
C9_RowOf(lines, i) ==
    LET h == MaxOf({j \in C9_HeaderLines(lines) : j <= i})
    IN  ZipDict(Cells(lines[h]), Cells(lines[i]))

C9_RowsOf(lines, chosen) ==
    [k \in 1..Cardinality(chosen) |-> C9_RowOf(lines, Nth(chosen, k))]

\* C9 as stated: the full parser returns, in order, exactly the lines between
\* the first header line and the first blank line after it that start with
\* "|", do not contain "---" and split into at least 3 cells.
C9_FullParserRows ==
    ParserReturned("full")
        => LET lines == Split(content, "\n")
               chosen == {i \in C9_Window(lines) : C9_RowShaped(lines[i])}
           IN  labels.full.rows = C9_RowsOf(lines, chosen)

\* C9 as amended: the same, except that a line which itself contains the
\* header (the header repeated inside the table) is not returned either.
C9_FullParserRowsButHeaders ==
    ParserReturned("full")
        => LET lines == Split(content, "\n")
               chosen == {i \in C9_Window(lines) :
                            C9_RowShaped(lines[i]) /\ ~Contains(lines[i], table_header)}
           IN  labels.full.rows = C9_RowsOf(lines, chosen)

\* a row above the header is left out and the row below it is returned
C9_Witness ==
    /\ ParserReturned("full")
    /\ content = RowLine \o NL \o HeaderLine \o NL \o RowLine \o NL
    /\ Len(labels.full.rows) = 1
    /\ labels.full.rows[1][<<"LabelName">>] = <<"bug">>

-----------------------------------------------------------------------------
\* the results a check recorded, recognised by their task
ResultsOf(task) ==
    SelectSeq(verification_results, LAMBDA r : r.task = task)

\* the document/label consistency check ran and returned
ConsistencyChecked ==
    JustRan("verify_document_label_consistency") /\ pc # "raised"

\* both of its requests succeeded and the two sets of label names are equal
C11_SetsEqual ==
    /\ response.endpoint = "labels"
    /\ response.success
    /\ labels.full.done
    /\ DocLabelNames(labels.full.rows) = response.body

\* C11: the document/label consistency check of the full variant records only
\* warning results on its failure paths, never a critical one, and records
\* success exactly when the documented label names equal the repository's.
C11_ConsistencyWarningOnly ==
    ConsistencyChecked
        => LET mine == ResultsOf("consistency")
           IN  /\ \A i \in 1..Len(mine) : mine[i].status \in {"warning", "success"}
               /\ (\E i \in 1..Len(mine) : mine[i].status = "success") <=> C11_SetsEqual

-----------------------------------------------------------------------------
\* the comment traceability check ran
CommentsChecked == JustRan("verify_issue_comments")

\* text of a reference to pull request n
C12_RefersTo(body, n) ==
    \E i \in 1..Len(body) :
        \/ /\ body[i] = "#"
           /\ i + Len(Str(n)) <= Len(body)
           /\ SubSeq(body, i + 1, i + Len(Str(n))) = Str(n)
        \/ /\ body[i] = "pull/"
           /\ i + Len(Str(n)) <= Len(body)
           /\ SubSeq(body, i + 1, i + Len(Str(n))) = Str(n)

C12_HasCompletionKeyword(body) ==
    \E k \in completion_keywords :
        \E i \in 0..(Len(body) - Len(k)) : SubSeq(Lower(body), i + 1, i + Len(k)) = k

\* the statuses the check is to record, in order
C12_Expected ==
    LET referenced == \E i \in 1..Len(response.body) : C12_RefersTo(response.body[i], pr.number)
        completed == \E i \in 1..Len(response.body) : C12_HasCompletionKeyword(response.body[i])
    IN  IF ~response.success THEN <<"warning">>
        ELSE (IF referenced THEN <<>> ELSE <<"warning">>)
             \o (IF completed THEN <<>> ELSE <<"warning">>)
             \o (IF referenced /\ completed THEN <<"success">> ELSE <<>>)

\* C12: the comment traceability check records success if and only if the
\* comments request succeeds, some comment references the PR number and some
\* comment (possibly another) holds a completion keyword; otherwise it records
\* only warnings, one per missing condition or one for the failed request, and
\* never a critical result.
C12_CommentTraceability ==
    CommentsChecked
        => LET mine == ResultsOf("comments")
           IN  [i \in 1..Len(mine) |-> mine[i].status] = C12_Expected

\* the reference and the completion keyword sit in different comments
C12_Witness ==
    /\ CommentsChecked
    /\ response.success
    /\ Len(response.body) = 2
    /\ C12_RefersTo(response.body[1], pr.number)
    /\ ~C12_HasCompletionKeyword(response.body[1])
    /\ ~C12_RefersTo(response.body[2], pr.number)
    /\ C12_HasCompletionKeyword(response.body[2])
    /\ Last(verification_results).status = "success"

-----------------------------------------------------------------------------
\* the order of run_verification in the full variant
C13_Order ==
    <<"setup_environment", "verify_branch_existence", "verify_label_document",
      "verify_standardization_issue", "verify_standardization_pr",
      "verify_issue_label_completeness", "verify_issue_comments",
      "verify_document_label_consistency", "verify_pr_core_labels",
      "generate_report">>

Ran(name) == \E i \in 1..Len(executed) : executed[i] = name

\* C13: in the full variant the checks run at most once each and in the fixed
\* order; the PR check runs only when the issue check returned an issue, the
\* four checks after it only when the PR check returned a PR, and once a PR
\* has been found all four of them and generate_report run, whatever their
\* outcomes.
C13_FixedPipeline ==
    variant = "full"
        => /\ Len(executed) <= Len(C13_Order)
           /\ executed = SubSeq(C13_Order, 1, Len(executed))
           /\ Ran("verify_standardization_pr") => issue # None
           /\ Ran("verify_issue_label_completeness") => pr # None
           /\ (pr # None /\ Ended) => executed = C13_Order

-----------------------------------------------------------------------------
\* the check that records results under a task
C14_CheckOf(task) ==
    CASE task = "env" -> "setup_environment"
      [] task = "branch" -> "verify_branch_existence"
      [] task = "doc" -> "verify_label_document"
      [] task = "issue" -> "verify_standardization_issue"
      [] task = "pr" -> "verify_standardization_pr"
      [] task = "issue_labels" -> "verify_issue_label_completeness"
      [] task = "comments" -> "verify_issue_comments"
      [] task = "consistency" -> "verify_document_label_consistency"
      [] task = "core_labels" -> "verify_pr_core_labels"

\* when the check `name` ran: its place in executed
C14_RanAt(run, name) == CHOOSE i \in 1..Len(run) : run[i] = name

C14_Extends(old, new) ==
    Len(new) >= Len(old) /\ SubSeq(new, 1, Len(old)) = old

C14_InExecutionOrder(results, run) ==
    /\ \A i \in 1..Len(results) :
           \E k \in 1..Len(run) : run[k] = C14_CheckOf(results[i].task)
    /\ \A i, j \in 1..Len(results) :
           i < j => C14_RanAt(run, C14_CheckOf(results[i].task))
                      <= C14_RanAt(run, C14_CheckOf(results[j].task))

\* C14: in both variants every step leaves verification_results unchanged or
\* extends it at the end, never removing, reordering or changing an entry, and
\* the entries of a check that ran earlier precede those of a check that ran
\* later.
C14_AppendOnlyLog ==
    [][/\ C14_Extends(verification_results, verification_results')
       /\ C14_InExecutionOrder(verification_results', executed')]_vars

\* a whole run of the full variant in which some check recorded several results
C14_Witness ==
    /\ variant = "full"
    /\ pc = "done"
    /\ Last(executed) = "generate_report"
    /\ Len(verification_results) >= Len(executed) + 1

-----------------------------------------------------------------------------
\* C15: in every state of either variant has_critical_error is true exactly
\* when the log holds a critical result; so where generate_report is about to
\* run its "completed with warnings" branch cannot be taken, a log with no
\* critical result (warnings or not) gets the "all passed" outcome, and once
\* generate_report has run the exit code is 0 exactly when no critical result
\* was recorded.
C15_CriticalFlagMatchesLog ==
    /\ has_critical_error <=> HasCritical(verification_results)
    /\ pc = "generate_report"
         => LET outcome == ReportOutcome(variant, has_critical_error, verification_results)
            IN  /\ outcome # "completed with warnings"
                /\ outcome = "all passed" <=> ~HasCritical(verification_results)
                /\ outcome = "failed" <=> HasCritical(verification_results)
    /\ JustRan("generate_report")
         => (exit_code = 0 <=> ~HasCritical(verification_results))

\* a full-variant log with warnings and no critical result is reported as passed
C15_Witness ==
    /\ variant = "full"
    /\ pc = "generate_report"
    /\ \E i \in 1..Len(verification_results) : verification_results[i].status = "warning"
    /\ ~HasCritical(verification_results)
    /\ ReportOutcome(variant, has_critical_error, verification_results) = "all passed"

====
